---- MODULE Spec2Model ----
(***************************************************************************)
(* PresiPlot: Elements.py (the per-element adapters over matplotlib        *)
(* artists and their series) and Animations.py (time-driven interpolation  *)
(* of an element's data value).                                            *)
(*                                                                         *)
(* Numbers are exact rationals <<n, d>> in lowest terms with d > 0; the    *)
(* Python value None is the pair <<0, 0>>.  Timestamps are integers, as    *)
(* in the repository's own demo (lines 98-112 of Animations.py).           *)
(***************************************************************************)
EXTENDS Integers, Sequences, FiniteSets, TLC

VARIABLES
    artist0,    \* the artifact as the plotting call made it (never written)
    artist,     \* the matplotlib artifact (bar container, path collection, line)
    series,     \* the ElementSeries built over it by create_element_series
    anims,      \* the Animation objects constructed so far, in construction order
    sa,         \* the SeriesAnimation object the driver asked for
    made,       \* the constructor call that made each Animation: <<element, arguments>>
    ticks,      \* the timestamps the driver's frames have passed to tick(), in order
    calls,      \* how many setter, update, zip and SeriesAnimation(...) calls were made
    last,       \* the most recent call: its name, arguments, exception, warning
    stagger     \* the driver's Stagger object: the itertools.count it holds

vars == <<artist0, artist, series, anims, sa, made, ticks, calls, last, stagger>>

\* ------------------------------------------------------------------ bounds

NumEl == 2          \* elements (bars, points, vertices) of the artifact
MaxAnims == 2       \* Animation objects constructed in one run
MaxTicks == 3       \* tick() calls in one run
MaxCalls == 2       \* setter, update, zip and SeriesAnimation(...) calls in one run

\* The demo's data: plt.bar([1, 2, 3, 4], [3, 2, 5, 8]) and the same for scatter.
DemoX == <<1, 2, 3, 4>>
DemoY == <<3, 2, 5, 8>>

\* Timestamps a driver passes to tick().
Times == {50, 100, 150}

\* ------------------------------------------------------------- arithmetic

Abs(n) == IF n < 0 THEN -n ELSE n

RECURSIVE GCD(_, _)
GCD(a, b) == IF b = 0 THEN a ELSE GCD(b, a % b)

\* The rational n/d in lowest terms, d # 0.
Q(n, d) ==
    LET g == GCD(Abs(n), Abs(d))
        s == IF d < 0 THEN -1 ELSE 1
    IN  <<(s * n) \div g, (s * d) \div g>>

I(n) == <<n, 1>>
None == <<0, 0>>
IsNone(a) == a[2] = 0

RAdd(a, b) == Q(a[1] * b[2] + b[1] * a[2], a[2] * b[2])
RSub(a, b) == Q(a[1] * b[2] - b[1] * a[2], a[2] * b[2])
RMul(a, b) == Q(a[1] * b[1], a[2] * b[2])
RLe(a, b) == a[1] * b[2] <= b[1] * a[2]
RLt(a, b) == a[1] * b[2] < b[1] * a[2]
RMax(a, b) == IF RLe(a, b) THEN b ELSE a
RMin(a, b) == IF RLe(a, b) THEN a ELSE b

Half == Q(1, 2)

\* max(0, min(1, alpha)), Elements.py lines 25 and 201.
Clamp01(a) == RMax(I(0), RMin(I(1), a))

\* ---------------------------------------------------------------- artists

\* plt.bar(x, height): width 0.8, centred on x, standing on y = 0, alpha unset.
BarArtist ==
    [kind |-> "bar",
     bars |-> [i \in 1..NumEl |->
                 [x |-> RSub(I(DemoX[i]), Q(2, 5)), y |-> I(0),
                  w |-> Q(4, 5), h |-> I(DemoY[i]), alpha |-> None]]]

\* plt.scatter(x, y, s=...): one shared size or one per point; alpha unset or a
\* number; one shared face colour.  get_offsets() hands out either the
\* collection's own array (view: the rows given to the elements are views of
\* it, and an element writing its data writes the array) or a copy.
ScatterArtist(eachSize, alpha, view) ==
    [kind |-> "scatter", view |-> view,
     offsets |-> [i \in 1..NumEl |-> <<I(DemoX[i]), I(DemoY[i])>>],
     sizes |-> IF eachSize THEN [i \in 1..NumEl |-> I(20 + i)] ELSE <<I(20)>>,
     alpha |-> alpha,
     colors |-> <<[rgb |-> "C0", a |-> IF IsNone(alpha) THEN I(1) ELSE alpha]>>]

\* plt.plot(x, y): marker size 6, line width 1.5, alpha unset or a number.
LineArtist(alpha) ==
    [kind |-> "line",
     xdata |-> [i \in 1..NumEl |-> I(DemoX[i])],
     ydata |-> [i \in 1..NumEl |-> I(DemoY[i])],
     alpha |-> alpha, ms |-> I(6), lw |-> Q(3, 2)]

\* Any other artist type (a Text, a list of artists, ...).
OtherArtist == [kind |-> "other"]

Artists ==
    {BarArtist, OtherArtist}
    \cup {ScatterArtist(e, None, v) : e \in BOOLEAN, v \in BOOLEAN}
    \cup {ScatterArtist(e, Half, FALSE) : e \in BOOLEAN}
    \cup {LineArtist(a) : a \in {None, Half}}

NoSeries == [status |-> "none", cls |-> "none", horizontal |-> FALSE, elements |-> <<>>]
NoSA == [status |-> "none", elements |-> NoSeries, artists |-> "unset", animations |-> <<>>]
NoCall == [op |-> "none", arg |-> <<>>, raised |-> "none", warned |-> FALSE]

\* The artifacts the animation runs are made over: one of each supported kind.
AnimArtists == {BarArtist, ScatterArtist(FALSE, None, TRUE), LineArtist(None)}

\* itertools.count(start, step): the number it yields next, and its step.
count(start, step) == [next |-> start, step |-> step]

\* next(c) on an itertools.count
count_next(c) == [value |-> c.next, count |-> [c EXCEPT !.next = c.next + c.step]]

\* Stagger.__init__: the object holds one itertools.count for its whole life.
Stagger_init(start_time, interval) == [times |-> count(start_time, interval)]

\* Stagger.__iter__: the count the object holds, not a new one.
Stagger_iter(st) == st.times

\* The demo's Stagger(0, 20).
DemoStagger == <<0, 20>>

Init ==
    /\ artist \in Artists
    /\ artist0 = artist
    /\ series = NoSeries
    /\ anims = <<>>
    /\ sa = NoSA
    /\ made = <<>>
    /\ ticks = <<>>
    /\ calls = 0
    /\ last = NoCall
    /\ stagger = Stagger_init(DemoStagger[1], DemoStagger[2])

\* ------------------------------------------------------- element methods
\* A method acts on the pair (artist, elements of the series) and yields the
\* pair after the call, with whether it warned.

Res(art, els, w) == [artist |-> art, elements |-> els, warned |-> w]

\* Element.get_alpha (bars): the artist's own alpha.
Element_get_alpha(art, els, i) == art.bars[i].alpha

\* Element.set_alpha (bars): in range, applied; out of range, clipped with a warning.
Element_set_alpha(art, els, i, a) ==
    IF RLe(I(0), a) /\ RLe(a, I(1))
    THEN Res([art EXCEPT !.bars[i].alpha = a], els, FALSE)
    ELSE Res([art EXCEPT !.bars[i].alpha = Clamp01(a)], els, TRUE)

BarElement_init(bar, horizontal) ==
    [horizontal |-> horizontal,
     ref_w |-> bar.w, ref_h |-> bar.h,
     cx |-> RAdd(bar.x, RMul(Half, bar.w)),
     cy |-> RAdd(bar.y, RMul(Half, bar.h)),
     scale |-> I(1)]

BarElement_get_data(art, els, i) ==
    IF els[i].horizontal THEN art.bars[i].w ELSE art.bars[i].h

BarElement_set_data(art, els, i, data) ==
    IF els[i].horizontal
    THEN Res([art EXCEPT !.bars[i].w = data], els, FALSE)
    ELSE Res([art EXCEPT !.bars[i].h = data], els, FALSE)

\* Variant: the bar is scaled from its present width and height.
BarElement_set_scale_compound(art, els, i, scale) ==
    LET e == els[i]
        b == art.bars[i]
        x == RSub(e.cx, RMul(RMul(scale, b.w), Half))
        y == RSub(e.cy, RMul(RMul(scale, b.h), Half))
    IN  Res([art EXCEPT !.bars[i] =
                 [@ EXCEPT !.x = x, !.y = y,
                           !.w = RMul(scale, b.w), !.h = RMul(scale, b.h)]],
            [els EXCEPT ![i].scale = scale], FALSE)

BarElement_set_scale(art, els, i, scale) ==
    LET e == els[i]
        x == RSub(e.cx, RMul(RMul(scale, e.ref_w), Half))
        y == RSub(e.cy, RMul(RMul(scale, e.ref_h), Half))
    IN  Res([art EXCEPT !.bars[i] =
                 [@ EXCEPT !.x = x, !.y = y,
                           !.w = RMul(scale, e.ref_w), !.h = RMul(scale, e.ref_h)]],
            [els EXCEPT ![i].scale = scale], FALSE)

BarElement_get_scale(art, els, i) == els[i].scale

\* DummyElement1D(horizontal): every field None until the series seeds it.
DummyElement1D_init(horizontal) ==
    [horizontal |-> horizontal, alpha |-> None, data |-> <<None, None>>,
     scale |-> None, ref_sizes |-> <<None, None>>]

DummyElement_get_alpha(art, els, i) == els[i].alpha

\* DummyElement.set_alpha overrides Element.set_alpha: the value is stored as given.
DummyElement_set_alpha(art, els, i, a) ==
    Res(art, [els EXCEPT ![i].alpha = a], FALSE)

DummyElement_get_scale(art, els, i) == els[i].scale

DummyElement_set_scale(art, els, i, scale) ==
    Res(art, [els EXCEPT ![i].scale = scale], FALSE)

\* idx = 0 if self.horizontal else 1 (Python indexes from 0, a tuple here from 1).
DataIdx(e) == IF e.horizontal THEN 1 ELSE 2

DummyElement1D_get_data(art, els, i) == els[i].data[DataIdx(els[i])]

\* self._data[idx] = data: when _data is a view of the collection's offsets, the
\* assignment lands in the collection too.
DummyElement1D_set_data(art, els, i, data) ==
    Res(IF art.kind = "scatter" /\ art.view
        THEN [art EXCEPT !.offsets[i][DataIdx(els[i])] = data] ELSE art,
        [els EXCEPT ![i].data[DataIdx(els[i])] = data], FALSE)

\* The method a call on element i of a series of class cls resolves to.
get_data(cls, art, els, i) ==
    IF cls = "BarSeries" THEN BarElement_get_data(art, els, i)
    ELSE DummyElement1D_get_data(art, els, i)

set_data(cls, art, els, i, v) ==
    IF cls = "BarSeries" THEN BarElement_set_data(art, els, i, v)
    ELSE DummyElement1D_set_data(art, els, i, v)

get_alpha(cls, art, els, i) ==
    IF cls = "BarSeries" THEN Element_get_alpha(art, els, i)
    ELSE DummyElement_get_alpha(art, els, i)

set_alpha(cls, art, els, i, v) ==
    IF cls = "BarSeries" THEN Element_set_alpha(art, els, i, v)
    ELSE DummyElement_set_alpha(art, els, i, v)

get_scale(cls, art, els, i) ==
    IF cls = "BarSeries" THEN BarElement_get_scale(art, els, i)
    ELSE DummyElement_get_scale(art, els, i)

set_scale(cls, art, els, i, v) ==
    IF cls = "BarSeries" THEN BarElement_set_scale(art, els, i, v)
    ELSE DummyElement_set_scale(art, els, i, v)

set_attr(attribute, cls, art, els, i, v) ==
    CASE attribute = "alpha" -> set_alpha(cls, art, els, i, v)
      [] attribute = "data" -> set_data(cls, art, els, i, v)
      [] attribute = "scale" -> set_scale(cls, art, els, i, v)

\* ------------------------------------------------------------------ series

Built(cls, horizontal, els) ==
    [status |-> "ok", cls |-> cls, horizontal |-> horizontal, elements |-> els]

Failed(exc) == [NoSeries EXCEPT !.status = exc]

BarSeries_init(art, horizontal) ==
    Built("BarSeries", horizontal,
          [i \in 1..Len(art.bars) |-> BarElement_init(art.bars[i], horizontal)])

\* ScatterSeries: the base class is handed horizontal=False whatever was asked;
\* a single size is repeated, a missing alpha is 1 for every point, and an alpha
\* that is one number cannot be indexed (alphas[i] raises TypeError).
ScatterSeries_init(art, horizontal) ==
    LET n == Len(art.offsets)
        sizes == IF Len(art.sizes) = 1 THEN [i \in 1..n |-> art.sizes[1]] ELSE art.sizes
    IN  IF ~IsNone(art.alpha) THEN Failed("TypeError")
        ELSE Built("ScatterSeries", FALSE,
                   [i \in 1..n |->
                      [DummyElement1D_init(horizontal) EXCEPT
                         !.data = art.offsets[i], !.scale = sizes[i], !.alpha = I(1)]])

Line2DSeries_init(art, horizontal) ==
    LET alpha == IF IsNone(art.alpha) THEN I(1) ELSE art.alpha
    IN  Built("Line2DSeries", horizontal,
              [i \in 1..Len(art.xdata) |->
                 [DummyElement1D_init(horizontal) EXCEPT
                    !.data = <<art.xdata[i], art.ydata[i]>>, !.alpha = alpha,
                    !.scale = I(1), !.ref_sizes = <<art.ms, art.lw>>]])

\* Variant: an artist of any other type gets an empty series of the base class.
create_element_series_fallback(art, horizontal) ==
    CASE art.kind = "bar" -> BarSeries_init(art, horizontal)
      [] art.kind = "scatter" -> ScatterSeries_init(art, horizontal)
      [] art.kind = "line" -> Line2DSeries_init(art, horizontal)
      [] OTHER -> Built("ElementSeries", horizontal, <<>>)

create_element_series(art, horizontal) ==
    CASE art.kind = "bar" -> BarSeries_init(art, horizontal)
      [] art.kind = "scatter" -> ScatterSeries_init(art, horizontal)
      [] art.kind = "line" -> Line2DSeries_init(art, horizontal)
      [] OTHER -> Failed("NotImplementedError")

\* ScatterSeries.update: offsets, sizes and colours rebuilt from the elements;
\* set_offsets stores a new array, which the elements' rows are no views of.
ScatterSeries_update(art, els) ==
    LET n == Len(els)
        colors == IF Len(art.colors) = 1 THEN [i \in 1..n |-> art.colors[1]]
                  ELSE art.colors
    IN  [art EXCEPT
           !.view = FALSE,
           !.offsets = [i \in 1..n |-> els[i].data],
           !.sizes = [i \in 1..n |-> els[i].scale],
           !.colors = [i \in 1..n |-> [colors[i] EXCEPT !.a = Clamp01(els[i].alpha)]]]

\* Variant: marker size and line width are set to the reference sizes, unscaled.
Line2DSeries_update_unscaled(art, els, alpha, scale) ==
    [art EXCEPT
       !.xdata = [i \in 1..Len(els) |-> els[i].data[1]],
       !.ydata = [i \in 1..Len(els) |-> els[i].data[2]],
       !.alpha = alpha,
       !.ms = els[1].ref_sizes[1],
       !.lw = els[1].ref_sizes[2]]

\* Line2DSeries.update with `alpha` and `scale` the values next(iter(set)) picks.
Line2DSeries_update(art, els, alpha, scale) ==
    [art EXCEPT
       !.xdata = [i \in 1..Len(els) |-> els[i].data[1]],
       !.ydata = [i \in 1..Len(els) |-> els[i].data[2]],
       !.alpha = alpha,
       !.ms = RMul(els[1].ref_sizes[1], scale),
       !.lw = RMul(els[1].ref_sizes[2], scale)]

AlphaSet(els) == {els[i].alpha : i \in 1..Len(els)}
ScaleSet(els) == {els[i].scale : i \in 1..Len(els)}

\* for i, v in enumerate(value): getattr(self[i], "set_" + attribute)(v)
RECURSIVE ApplyEach(_, _, _, _, _, _)
ApplyEach(attribute, cls, r, value, i, n) ==
    IF i > n THEN r
    ELSE LET s == set_attr(attribute, cls, r.artist, r.elements, i, value[i])
         IN  ApplyEach(attribute, cls,
                       Res(s.artist, s.elements, r.warned \/ s.warned), value, i + 1, n)

\* The exception ElementSeries._set_attribute raises for `value`, "none" if none.
\* A value is [pytype, v]: the list v, or for a number of Python type pytype the
\* one-element tuple v holding it.
SetAttributeRaises(els, value) ==
    CASE value.pytype \in {"int", "float"} -> "none"
      [] value.pytype # "list" -> "TypeError"
      [] Len(value.v) # Len(els) -> "ValueError"
      [] OTHER -> "none"

\* Variant: the values are applied before the length is checked.
ElementSeries_set_attribute_check_late(attribute, cls, art, els, value) ==
    LET vs == IF value.pytype \in {"int", "float"}
              THEN [i \in 1..Len(els) |-> value.v[1]] ELSE value.v
        n == IF Len(vs) < Len(els) THEN Len(vs) ELSE Len(els)
    IN  IF SetAttributeRaises(els, value) = "TypeError" THEN Res(art, els, FALSE)
        ELSE ApplyEach(attribute, cls, Res(art, els, FALSE), vs, 1, n)

ElementSeries_set_attribute(attribute, cls, art, els, value) ==
    LET vs == IF value.pytype \in {"int", "float"}
              THEN [i \in 1..Len(els) |-> value.v[1]] ELSE value.v
    IN  IF SetAttributeRaises(els, value) # "none" THEN Res(art, els, FALSE)
        ELSE ApplyEach(attribute, cls, Res(art, els, FALSE), vs, 1, Len(els))

\* ElementSeries.__init__, the base class: no element, and no `artists` attribute
\* (BarSeries, ScatterSeries and Line2DSeries set it, lines 175, 193, 220).
ElementSeries_init(art, horizontal) == Built("ElementSeries", horizontal, <<>>)

HasArtists(s) == s.cls \in {"BarSeries", "ScatterSeries", "Line2DSeries"}

\* -------------------------------------------------------------- animations

\* The easing functions a caller passes: easing_functions.LinearInOut (the
\* default, the identity on progress) and QuadEaseIn (progress squared).
Easers == {"linear", "quad"}

ease(easer, p) == IF easer = "linear" THEN p ELSE RMul(p, p)

\* Animation.__init__ without its initialize() call.
Animation_fields(cls, element, start, duration, start_value, end_value, easer) ==
    [cls |-> cls, element |-> element, start_time |-> start, duration |-> duration,
     end_time |-> start + duration, start_value |-> start_value,
     end_value |-> end_value, easer |-> easer]

\* Variant: progress measured from time 0 instead of from start_time.
get_value_at_time_from_zero(an, t) ==
    LET alpha == ease(an.easer, Q(t, an.duration))
    IN  RAdd(an.start_value, RMul(alpha, RSub(an.end_value, an.start_value)))

\* Animation._get_value_at_time
get_value_at_time(an, t) ==
    LET alpha == ease(an.easer, Q(t - an.start_time, an.duration))
    IN  RAdd(an.start_value, RMul(alpha, RSub(an.end_value, an.start_value)))

\* DataAnimation.initialize
DataAnimation_initialize(an, cls, art, els) ==
    set_data(cls, art, els, an.element, an.start_value)

\* Variants of the window: closed at start_time, open at end_time, without end.
InWindow_from_start(an, t) == an.start_time <= t /\ t <= an.end_time
InWindow_before_end(an, t) == an.start_time < t /\ t < an.end_time
InWindow_no_end(an, t) == an.start_time < t

\* The condition of DataAnimation.tick: start_time < t <= end_time.
InWindow(an, t) == an.start_time < t /\ t <= an.end_time

\* Variant: a tick past end_time snaps the element to end_value.
DataAnimation_tick_snap(an, cls, art, els, t) ==
    IF InWindow(an, t)
    THEN set_data(cls, art, els, an.element, get_value_at_time(an, t))
    ELSE IF t > an.end_time THEN set_data(cls, art, els, an.element, an.end_value)
         ELSE Res(art, els, FALSE)

\* Variant: a tick at or before start_time puts the element back to start_value.
DataAnimation_tick_rewind(an, cls, art, els, t) ==
    IF InWindow(an, t)
    THEN set_data(cls, art, els, an.element, get_value_at_time(an, t))
    ELSE IF t <= an.start_time THEN set_data(cls, art, els, an.element, an.start_value)
         ELSE Res(art, els, FALSE)

\* Variant: a tick moves the element by the difference from start_value.
DataAnimation_tick_incremental(an, cls, art, els, t) ==
    IF InWindow(an, t)
    THEN set_data(cls, art, els, an.element,
                  RAdd(get_data(cls, art, els, an.element),
                       RSub(get_value_at_time(an, t), an.start_value)))
    ELSE Res(art, els, FALSE)

\* DataAnimation.tick
DataAnimation_tick(an, cls, art, els, t) ==
    IF InWindow(an, t)
    THEN set_data(cls, art, els, an.element, get_value_at_time(an, t))
    ELSE Res(art, els, FALSE)

\* Variant: the end value is read after the initializing write of 0.
Grow_end_value_after_init(cls, art, els, element, end_value) ==
    LET r == set_data(cls, art, els, element, I(0))
    IN  IF IsNone(end_value) THEN get_data(cls, r.artist, r.elements, element)
        ELSE end_value

\* Grow.__init__: the end value, when not given, is the element's data now.
Grow_end_value(cls, art, els, element, end_value) ==
    IF IsNone(end_value) THEN get_data(cls, art, els, element) ELSE end_value

\* The constructor calls a driver makes: Grow with its defaults, and a
\* DataAnimation between two given values.
AnimArgs ==
    {[cls |-> "Grow", start |-> 0, duration |-> 100, start_value |-> I(0),
      end_value |-> None, easer |-> "linear", initialize |-> TRUE],
     [cls |-> "Grow", start |-> 50, duration |-> 100, start_value |-> I(0),
      end_value |-> None, easer |-> "quad", initialize |-> TRUE],
     [cls |-> "DataAnimation", start |-> 0, duration |-> 50, start_value |-> I(1),
      end_value |-> I(4), easer |-> "linear", initialize |-> FALSE]}

\* for anim in animations: anim.tick(t)
RECURSIVE TickEach(_, _, _, _, _)
TickEach(as, cls, r, t, k) ==
    IF k > Len(as) THEN r
    ELSE TickEach(as, cls, DataAnimation_tick(as[k], cls, r.artist, r.elements, t), t, k + 1)

\* The start_time / duration / easer argument of SeriesAnimation as n values:
\* a number of type int or float (v = <<number>>) is repeated, a Stagger
\* (v = <<start_time, interval>>) counts start_time, start_time + interval, ...,
\* and a list is taken as it is.
Resolve(arg, n) ==
    CASE arg.pytype \in {"int", "float", "easer"} -> [i \in 1..n |-> arg.v[1]]
      [] arg.pytype = "Stagger" -> [i \in 1..n |-> arg.v[1] + (i - 1) * arg.v[2]]
      [] OTHER -> arg.v

\* SeriesAnimation.__init__ with animation_class=Grow.  self.elements is built by
\* the base class ElementSeries, so reading self.elements.artists raises
\* AttributeError and the constructor ends there, with self._artists and
\* self.animations never set; zip() over the empty series would yield nothing.
SeriesAnimation_init(art, start_time, duration, easer, horizontal) ==
    LET els == ElementSeries_init(art, horizontal)
        n == Len(els.elements)
        st == Resolve(start_time, n)
        d == Resolve(duration, n)
        ea == Resolve(easer, n)
    IN  IF ~HasArtists(els)
        THEN [status |-> "AttributeError", elements |-> els, artists |-> "unset",
              animations |-> <<>>]
        ELSE [status |-> "ok", elements |-> els, artists |-> "set",
              animations |->
                 [k \in 1..n |->
                    Animation_fields("Grow", k, st[k], d[k], I(0),
                                     get_data(els.cls, art, els.elements, k), ea[k])]]

\* ----------------------------------------------------------------- actions

Call(op, arg, raised, warned) ==
    [op |-> op, arg |-> arg, raised |-> raised, warned |-> warned]

\* series = create_element_series(artist, horizontal)
NewSeries(horizontal) ==
    /\ series.status = "none"
    /\ series' = create_element_series(artist, horizontal)
    /\ last' = Call("create_element_series", <<horizontal>>,
                    IF series'.status = "ok" THEN "none" ELSE series'.status, FALSE)
    /\ UNCHANGED <<stagger, artist0, artist, anims, sa, made, ticks, calls>>

\* anim = Grow(series[i], ...) or DataAnimation(series[i], ...).  The driver goes
\* through the elements in order, as the comprehension of SeriesAnimation.__init__
\* does, and may give one element several Animations.
NewAnimation(i, a) ==
    /\ series.status = "ok"
    /\ Len(anims) < MaxAnims
    /\ ticks = <<>>
    /\ anims # <<>> => anims[Len(anims)].element <= i
    /\ LET ev == IF a.cls = "Grow"
                 THEN Grow_end_value(series.cls, artist, series.elements, i, a.end_value)
                 ELSE a.end_value
           an == Animation_fields(a.cls, i, a.start, a.duration, a.start_value, ev, a.easer)
           r == IF a.initialize
                THEN DataAnimation_initialize(an, series.cls, artist, series.elements)
                ELSE Res(artist, series.elements, FALSE)
       IN  /\ anims' = Append(anims, an)
           /\ made' = Append(made, <<i, a>>)
           /\ artist' = r.artist
           /\ series' = [series EXCEPT !.elements = r.elements]
           /\ last' = Call(a.cls, <<i, a>>, "none", FALSE)
    /\ UNCHANGED <<stagger, artist0, sa, ticks, calls>>

\* One frame, the loop of SeriesAnimation.tick over the Animations the driver
\* holds: for anim in animations: anim.tick(t).  Nothing is flushed.
Tick(t) ==
    /\ anims # <<>>
    /\ Len(ticks) < MaxTicks
    /\ LET r == TickEach(anims, series.cls, Res(artist, series.elements, FALSE), t, 1)
       IN  /\ artist' = r.artist
           /\ series' = [series EXCEPT !.elements = r.elements]
    /\ ticks' = Append(ticks, t)
    /\ last' = Call("tick", <<t>>, "none", FALSE)
    /\ UNCHANGED <<stagger, artist0, anims, sa, made, calls>>

NextAnim ==
    \/ \E h \in BOOLEAN : NewSeries(h)
    \/ \E i \in 1..NumEl, a \in AnimArgs : NewAnimation(i, a)
    \/ \E t \in Times : Tick(t)

InitAnim == Init /\ artist \in AnimArtists

SpecAnim == InitAnim /\ [][NextAnim]_vars

\* The setter calls a caller makes on one element.
ElementArgs ==
    {<<"alpha", Half>>, <<"alpha", Q(3, 2)>>, <<"alpha", Q(-1, 2)>>,
     <<"data", I(2)>>, <<"scale", I(2)>>, <<"scale", Half>>}

\* series[i].set_alpha(v), series[i].set_data(v) or series[i].set_scale(v)
ElementSet(i, attribute, v) ==
    /\ series.status = "ok"
    /\ calls < MaxCalls
    /\ LET r == set_attr(attribute, series.cls, artist, series.elements, i, v)
       IN  /\ artist' = r.artist
           /\ series' = [series EXCEPT !.elements = r.elements]
           /\ last' = Call("element.set", <<attribute, i, v>>, "none", r.warned)
    /\ calls' = calls + 1
    /\ UNCHANGED <<stagger, artist0, anims, sa, made, ticks>>

Attributes == {"alpha", "data", "scale"}

Repeat(v, n) == [i \in 1..n |-> v]

\* The values a caller passes to a batched setter of a series of n elements:
\* numbers of Python type int, float and numpy.float64 (the type of the numbers
\* numpy arrays hold), and lists of n, n - 1 and n + 1 numbers.
SeriesValues(n) ==
    {[pytype |-> "int", v |-> <<I(2)>>],
     [pytype |-> "float", v |-> <<Q(3, 2)>>],
     [pytype |-> "numpy.float64", v |-> <<Q(3, 2)>>],
     [pytype |-> "list", v |-> Repeat(Q(3, 2), n)],
     [pytype |-> "list", v |-> [i \in 1..n |-> Q(i, 2)]],
     [pytype |-> "list", v |-> Repeat(Q(3, 2), n - 1)],
     [pytype |-> "list", v |-> Repeat(Q(3, 2), n + 1)]}

\* series.set_alpha(value), series.set_data(value) or series.set_scale(value)
SeriesSet(attribute, value) ==
    /\ series.status = "ok"
    /\ calls < MaxCalls
    /\ LET r == ElementSeries_set_attribute(attribute, series.cls, artist,
                                            series.elements, value)
       IN  /\ artist' = r.artist
           /\ series' = [series EXCEPT !.elements = r.elements]
           /\ last' = Call("series.set", <<attribute, value>>,
                           SetAttributeRaises(series.elements, value), r.warned)
    /\ calls' = calls + 1
    /\ UNCHANGED <<stagger, artist0, anims, sa, made, ticks>>

\* series.update(): nothing for bars; for a line, next(iter(set)) picks any member.
SeriesUpdate ==
    /\ series.status = "ok"
    /\ calls < MaxCalls
    /\ \/ /\ series.cls = "BarSeries"
          /\ artist' = artist
          /\ last' = Call("update", <<>>, "none", FALSE)
       \/ /\ series.cls = "ScatterSeries"
          /\ artist' = ScatterSeries_update(artist, series.elements)
          /\ last' = Call("update", <<>>, "none", FALSE)
       \/ /\ series.cls = "Line2DSeries"
          /\ \E alpha \in AlphaSet(series.elements), scale \in ScaleSet(series.elements) :
                artist' = Line2DSeries_update(artist, series.elements, alpha, scale)
          /\ last' = Call("update", <<>>, "none",
                          Cardinality(AlphaSet(series.elements)) # 1
                              \/ Cardinality(ScaleSet(series.elements)) # 1)
    /\ calls' = calls + 1
    /\ UNCHANGED <<stagger, artist0, series, anims, sa, made, ticks>>

\* The start_time arguments a caller passes to SeriesAnimation.
StartTimes == {[pytype |-> "int", v |-> <<0>>],
               [pytype |-> "Stagger", v |-> <<0, 20>>]}

\* sa = SeriesAnimation(artist, start_time, 100, LinearInOut(), Grow, horizontal)
NewSeriesAnimation(start_time, horizontal) ==
    /\ sa.status = "none"
    /\ calls < MaxCalls
    /\ calls' = calls + 1
    /\ sa' = SeriesAnimation_init(artist, start_time, [pytype |-> "int", v |-> <<100>>],
                                  [pytype |-> "easer", v |-> <<"linear">>], horizontal)
    /\ last' = Call("SeriesAnimation", <<start_time, horizontal>>,
                    IF sa'.status = "ok" THEN "none" ELSE sa'.status, FALSE)
    /\ UNCHANGED <<stagger, artist0, artist, series, anims, made, ticks>>

\* The first n values of an iterator over a count, and the count afterwards.
RECURSIVE Take(_, _)
Take(c, n) ==
    IF n = 0 THEN [values |-> <<>>, count |-> c]
    ELSE LET r == Take(c, n - 1)
             x == count_next(r.count)
         IN  [values |-> Append(r.values, x.value), count |-> x.count]

\* start_times = [st for el, st in zip(elements, stagger)] over n elements, as
\* the zip of SeriesAnimation.__init__ consumes a Stagger: iter(stagger), then
\* one value per element.
StaggerZip(n) ==
    /\ calls < MaxCalls
    /\ calls' = calls + 1
    /\ LET r == Take(Stagger_iter(stagger), n)
       IN  /\ stagger' = [stagger EXCEPT !.times = r.count]
           /\ last' = Call("zip", <<n, r.values>>, "none", FALSE)
    /\ UNCHANGED <<artist0, artist, series, anims, sa, made, ticks>>

Next ==
    \/ \E h \in BOOLEAN : NewSeries(h)
    \/ \E i \in 1..NumEl, a \in ElementArgs : ElementSet(i, a[1], a[2])
    \/ \E attribute \in Attributes, value \in SeriesValues(NumEl) :
          SeriesSet(attribute, value)
    \/ SeriesUpdate
    \/ \E st \in StartTimes, h \in BOOLEAN : NewSeriesAnimation(st, h)
    \/ \E n \in 1..NumEl : StaggerZip(n)

Spec == Init /\ [][Next]_vars

\* ------------------------------------------------- properties: animations

\* What is stored for element i: its own fields and, for a bar, its rectangle.
ElementState(art, els, i) ==
    IF art.kind = "bar" THEN <<els[i], art.bars[i]>> ELSE <<els[i]>>

Data(i) == get_data(series.cls, artist, series.elements, i)

\* The element's data before anything was animated.
OrigData(i) ==
    get_data(series.cls, artist0,
             create_element_series(artist0, series.elements[i].horizontal).elements, i)

AnimsOn(i) == {k \in 1..Len(anims) : anims[k].element = i}
SoleAnim(i, k) == AnimsOn(i) = {k}
LastT == ticks[Len(ticks)]

\* Timestamps the properties probe tick() with, beyond those the driver passes:
\* some at or before a start_time, some past an end_time.
PendingProbes == {-50, 0, 50}
SettledProbes == {100, 150, 200}

IsDefaultGrow(a) ==
    /\ a.cls = "Grow" /\ a.start = 0 /\ a.duration = 100 /\ a.easer = "linear"
    /\ a.start_value = I(0) /\ IsNone(a.end_value)

\* C1: bars of heights h_i, each with one Grow(start=0, duration=100, linear easer,
\* default values): after the ticks 50 every height is h_i/2, after 50, 100 it is
\* h_i, and after 50, 100, 150 it is still h_i.
C1_GrowScenario ==
    (artist.kind = "bar" /\ series.status = "ok" /\ ~series.horizontal) =>
        \A i \in 1..Len(series.elements) :
            (\E k \in 1..Len(anims) : SoleAnim(i, k) /\ IsDefaultGrow(made[k][2])) =>
                /\ ticks = <<50>> => artist.bars[i].h = RMul(Half, artist0.bars[i].h)
                /\ ticks = <<50, 100>> => artist.bars[i].h = artist0.bars[i].h
                /\ ticks = <<50, 100, 150>> => artist.bars[i].h = artist0.bars[i].h

C1_Witness ==
    /\ artist.kind = "bar" /\ series.status = "ok" /\ ~series.horizontal
    /\ ticks = <<50, 100, 150>>
    /\ \A i \in 1..NumEl :
          /\ \E k \in 1..Len(anims) : SoleAnim(i, k) /\ IsDefaultGrow(made[k][2])
          /\ artist.bars[i].h = I(DemoY[i])

\* C3: when a frame's tick(t) has returned, the artifact's coordinates, sizes and
\* alpha are those of the elements (the tick has flushed the series).
Reflects(art, els) ==
    CASE art.kind = "scatter" ->
           \A i \in 1..Len(els) :
              /\ art.offsets[i] = els[i].data
              /\ (IF Len(art.sizes) = 1 THEN art.sizes[1] ELSE art.sizes[i]) = els[i].scale
              /\ (IF Len(art.colors) = 1 THEN art.colors[1] ELSE art.colors[i]).a
                    = Clamp01(els[i].alpha)
      [] art.kind = "line" ->
           /\ \A i \in 1..Len(els) : <<art.xdata[i], art.ydata[i]>> = els[i].data
           /\ (IF IsNone(art.alpha) THEN I(1) ELSE art.alpha) \in AlphaSet(els)
           /\ \E sc \in ScaleSet(els) : art.ms = RMul(els[1].ref_sizes[1], sc)
      [] OTHER -> TRUE

C3_TickFlushes == last.op = "tick" => Reflects(artist, series.elements)

\* C4: in every state, a tick(t) with t <= start_time changes nothing; and while
\* every tick so far was at or before start_time, an element with one Animation
\* holds start_value if the Animation initialized, else its original data.
C4_PendingTickNoWrite ==
    series.status = "ok" =>
        /\ \A k \in 1..Len(anims), t \in PendingProbes :
              t <= anims[k].start_time =>
                  LET r == DataAnimation_tick(anims[k], series.cls, artist, series.elements, t)
                  IN  r.artist = artist /\ r.elements = series.elements
        /\ \A i \in 1..Len(series.elements), k \in 1..Len(anims) :
              (SoleAnim(i, k) /\ \A j \in 1..Len(ticks) : ticks[j] <= anims[k].start_time) =>
                  Data(i) = IF made[k][2].initialize THEN anims[k].start_value
                            ELSE OrigData(i)

C4_Witness ==
    /\ Len(ticks) >= 2
    /\ \E i \in 1..Len(series.elements), k \in 1..Len(anims) :
          /\ SoleAnim(i, k)
          /\ LastT <= anims[k].start_time
          /\ anims[k].start_time < ticks[Len(ticks) - 1]
          /\ Data(i) # anims[k].start_value

\* C5: in every state, two ticks with timestamps past end_time, equal or not,
\* leave the artist and the elements as they are.
C5_SettledTickNoOp ==
    series.status = "ok" =>
        \A k \in 1..Len(anims), t1 \in SettledProbes, t2 \in SettledProbes :
            (t1 > anims[k].end_time /\ t2 > anims[k].end_time) =>
                LET r1 == DataAnimation_tick(anims[k], series.cls, artist, series.elements, t1)
                    r2 == DataAnimation_tick(anims[k], series.cls, r1.artist, r1.elements, t2)
                IN  r2.artist = artist /\ r2.elements = series.elements

C5_Witness ==
    /\ Len(ticks) = 3
    /\ \E i \in 1..Len(series.elements), k \in 1..Len(anims) :
          /\ SoleAnim(i, k)
          /\ ticks[1] <= anims[k].end_time /\ anims[k].start_time < ticks[1]
          /\ ticks[2] > anims[k].end_time /\ ticks[3] > anims[k].end_time
          /\ Data(i) = get_value_at_time(anims[k], ticks[1])
          /\ Data(i) # anims[k].end_value

Settled(k) == \E j \in 1..Len(ticks) : ticks[j] > anims[k].end_time

\* C6 as stated: once every Animation of an element has had a tick past its
\* end_time, no later step changes the element.
C6_SettledIsTerminal ==
    [][\A i \in 1..Len(series.elements) :
          (AnimsOn(i) # {} /\ \A k \in AnimsOn(i) : Settled(k)) =>
              ElementState(artist', series'.elements, i)
                  = ElementState(artist, series.elements, i)]_vars

\* C6 amended: once an Animation has had a tick at some t past its end_time, a
\* later tick at t' >= t does not change the element.
C6_SettledStaysUnderLaterTicks ==
    [][\A i \in 1..Len(series.elements) :
          (/\ AnimsOn(i) # {}
           /\ Len(ticks') = Len(ticks) + 1
           /\ \A k \in AnimsOn(i) :
                 \E j \in 1..Len(ticks) :
                    ticks[j] > anims[k].end_time /\ ticks'[Len(ticks')] >= ticks[j]) =>
              ElementState(artist', series'.elements, i)
                  = ElementState(artist, series.elements, i)]_vars

C6_Witness ==
    /\ ticks = <<50, 100, 150>>
    /\ \E i \in 1..Len(series.elements), k \in 1..Len(anims) :
          /\ SoleAnim(i, k)
          /\ anims[k].end_time = 50
          /\ Data(i) = anims[k].end_value
          /\ anims[k].end_value # anims[k].start_value

\* The interpolated value, computed on integers: for the linear easer
\* start + (t - start_time) * (end - start) / duration, for the quadratic one
\* start + (t - start_time)^2 * (end - start) / duration^2.
Expected(an, t) ==
    LET d == RSub(an.end_value, an.start_value)
        n == t - an.start_time
    IN  IF an.easer = "linear"
        THEN RAdd(an.start_value, Q(n * d[1], an.duration * d[2]))
        ELSE RAdd(an.start_value, Q(n * n * d[1], an.duration * an.duration * d[2]))

\* C7: after a tick at t with start_time < t <= end_time, an element with one
\* Animation holds the interpolated value; and with the linear easer the value at
\* start_time is start_value and the value at start_time + duration is end_value
\* (a fact of the Animation's fields, looked at before the first frame: the
\* fields never change afterwards).
C7_InterpolatedWrite ==
    series.status = "ok" =>
        /\ \A i \in 1..Len(series.elements), k \in 1..Len(anims) :
              (/\ ticks # <<>> /\ SoleAnim(i, k)
               /\ anims[k].start_time < LastT /\ LastT <= anims[k].end_time) =>
                  Data(i) = Expected(anims[k], LastT)
        /\ \A k \in 1..Len(anims) :
              (anims[k].easer = "linear" /\ ticks = <<>>) =>
                  /\ get_value_at_time(anims[k], anims[k].start_time) = anims[k].start_value
                  /\ get_value_at_time(anims[k], anims[k].start_time + anims[k].duration)
                        = anims[k].end_value

C7_Witness ==
    /\ ticks # <<>>
    /\ \E i \in 1..Len(series.elements), k \in 1..Len(anims) :
          /\ SoleAnim(i, k)
          /\ anims[k].easer = "linear"
          /\ LastT = anims[k].end_time
          /\ anims[k].start_value # anims[k].end_value
          /\ Data(i) = anims[k].end_value

\* The frames whose timestamp fell in Animation k's window, and the last of them.
WindowTicks(k) ==
    {j \in 1..Len(ticks) : anims[k].start_time < ticks[j] /\ ticks[j] <= anims[k].end_time}

LastWindowTick(k) ==
    ticks[CHOOSE j \in WindowTicks(k) : \A j2 \in WindowTicks(k) : j2 <= j]

C16_GrowCapturesBeforeInit ==
    [][(/\ Len(anims') = Len(anims) + 1
        /\ last'.op = "Grow"
        /\ IsNone(last'.arg[2].end_value)) =>
           LET i == last'.arg[1]
               a == anims'[Len(anims')]
           IN  /\ a.element = i
               /\ a.start_value = I(0)
               /\ a.end_value = Data(i)
               /\ last'.arg[2].initialize =>
                      get_data(series'.cls, artist', series'.elements, i) = I(0)]_vars

\* Two Grows on one element: the first captured the original data, the second
\* the 0 the first one wrote.
C16_Witness ==
    /\ Len(anims) = 2
    /\ made[1][1] = made[2][1]
    /\ made[1][2].cls = "Grow" /\ IsNone(made[1][2].end_value)
    /\ made[2][2].cls = "Grow" /\ IsNone(made[2][2].end_value)
    /\ anims[1].end_value = OrigData(made[1][1])
    /\ anims[1].end_value # I(0)
    /\ anims[2].end_value = I(0)

\* The series as it is right after construction, before any Animation or tick.
FreshElements ==
    create_element_series(artist0, series.elements[1].horizontal).elements

\* The data of Animation an's element after an.tick(t) on the pair (art, els).
DataAfterTick(an, art, els, t) ==
    LET r == DataAnimation_tick(an, series.cls, art, els, t)
    IN  get_data(series.cls, r.artist, r.elements, an.element)

\* C19: when the last frame was at a timestamp t in the window of an element's
\* one Animation, the element holds, whatever frames came before, the data it
\* holds in the run where tick(t) is the first call after construction; and
\* calling tick(t) once more changes neither the elements nor the artist.
C19_TickHistoryIndependent ==
    (series.status = "ok" /\ ticks # <<>>) =>
        \A k \in 1..Len(anims) :
            (/\ SoleAnim(anims[k].element, k)
             /\ anims[k].start_time < LastT /\ LastT <= anims[k].end_time) =>
                LET r == DataAnimation_tick(anims[k], series.cls, artist,
                                            series.elements, LastT)
                IN  /\ Data(anims[k].element)
                          = DataAfterTick(anims[k], artist0, FreshElements, LastT)
                    /\ r.artist = artist /\ r.elements = series.elements

\* A default Grow ticked at 100, at 150 and then at 50 is where a single tick at
\* 50 puts it.
C19_Witness ==
    /\ ticks = <<100, 150, 50>>
    /\ \E i \in 1..Len(series.elements), k \in 1..Len(anims) :
          /\ SoleAnim(i, k)
          /\ IsDefaultGrow(made[k][2])
          /\ Data(i) = DataAfterTick(anims[k], artist0, FreshElements, 50)
          /\ Data(i) # anims[k].start_value
          /\ Data(i) # anims[k].end_value

\* ----------------------------------------------------- properties: series

ElementCount(art) ==
    CASE art.kind = "bar" -> Len(art.bars)
      [] art.kind = "scatter" -> Len(art.offsets)
      [] art.kind = "line" -> Len(art.xdata)
      [] OTHER -> 0

\* C2: after SeriesAnimation(artist, start_time, 100, easer, Grow) on a bar group,
\* a point cloud or a line, the object holds one Animation per element of the
\* artifact, the i-th bound to element i, with the i-th start time (the same
\* number for all, or start + (i - 1) * interval for a Stagger) and duration 100.
C2_OneAnimationPerElement ==
    (last.op = "SeriesAnimation" /\ artist.kind \in {"bar", "scatter", "line"}) =>
        /\ sa.status = "ok"
        /\ Len(sa.animations) = ElementCount(artist)
        /\ \A i \in 1..Len(sa.animations) :
              /\ sa.animations[i].element = i
              /\ sa.animations[i].duration = 100
              /\ sa.animations[i].start_time
                    = IF last.arg[1].pytype = "Stagger"
                      THEN last.arg[1].v[1] + (i - 1) * last.arg[1].v[2]
                      ELSE last.arg[1].v[1]

\* C8: a batched setter called with a list whose length is not the series' fails
\* with the length-mismatch error (ValueError) and changes no element and nothing
\* of the artist.
C8_LengthMismatchRejected ==
    [][(/\ calls' = calls + 1
        /\ last'.op = "series.set"
        /\ last'.arg[2].pytype = "list"
        /\ Len(last'.arg[2].v) # Len(series.elements)) =>
           /\ last'.raised = "ValueError"
           /\ series'.elements = series.elements
           /\ artist' = artist]_vars

C8_Witness ==
    /\ last.op = "series.set"
    /\ last.arg[2].pytype = "list"
    /\ Len(last.arg[2].v) = Len(series.elements) - 1
    /\ last.raised = "ValueError"
    /\ calls = 2
    /\ \E i \in 1..Len(series.elements) :
          ElementState(artist, series.elements, i)
              # ElementState(artist0, create_element_series(
                                 artist0, series.elements[i].horizontal).elements, i)

\* C9: a batched setter called with a number v raises nothing and leaves the
\* elements and the artist as the call with the list [v, ..., v] of len(series)
\* values would.
C9_BroadcastLaw ==
    [][(/\ calls' = calls + 1
        /\ last'.op = "series.set"
        /\ last'.arg[2].pytype # "list") =>
           LET r == ElementSeries_set_attribute(
                        last'.arg[1], series.cls, artist, series.elements,
                        [pytype |-> "list",
                         v |-> Repeat(last'.arg[2].v[1], Len(series.elements))])
           IN  /\ last'.raised = "none"
               /\ series'.elements = r.elements
               /\ artist' = r.artist]_vars

\* C10: after set_alpha(a) on an element of any kind, get_alpha() is a clamped into
\* [0, 1], and the call warned exactly when a was outside [0, 1].
C10_AlphaClamped ==
    (last.op = "element.set" /\ last.arg[1] = "alpha") =>
        LET i == last.arg[2]
            a == last.arg[3]
        IN  /\ get_alpha(series.cls, artist, series.elements, i) = Clamp01(a)
            /\ last.warned <=> ~(RLe(I(0), a) /\ RLe(a, I(1)))

\* The artifact's bulk state, element by element: a path collection with one
\* size or one colour draws every point with it, so it is read per point.
SizeOf(art, i) == IF Len(art.sizes) = 1 THEN art.sizes[1] ELSE art.sizes[i]
ColorOf(art, i) == IF Len(art.colors) = 1 THEN art.colors[1] ELSE art.colors[i]

BulkState(art) ==
    CASE art.kind = "bar" -> <<art.bars>>
      [] art.kind = "scatter" ->
           <<art.offsets, [i \in 1..Len(art.offsets) |-> SizeOf(art, i)],
             art.alpha, [i \in 1..Len(art.offsets) |-> ColorOf(art, i)]>>
      [] art.kind = "line" -> <<art.xdata, art.ydata, art.alpha, art.ms, art.lw>>
      [] OTHER -> <<>>

Supported == {"bar", "scatter", "line"}

\* C11: for a bar group, a point cloud and a polyline, create_element_series
\* builds the series, and update() with no call in between leaves the artifact's
\* coordinates, sizes, marker size, line width, alpha and colours as the plotting
\* call made them.
C11_RoundTrip ==
    /\ (last.op = "create_element_series" /\ artist.kind \in Supported) =>
           series.status = "ok"
    /\ (last.op = "update" /\ calls = 1) => BulkState(artist) = BulkState(artist0)

RefGeometry(e) == <<e.ref_w, e.ref_h, e.cx, e.cy>>

\* The scale the call just made gave element i, None if it gave it none.
ScaleGiven(call, i, n) ==
    CASE call.op = "element.set" /\ call.arg[1] = "scale" /\ call.arg[2] = i -> call.arg[3]
      [] call.op = "series.set" /\ call.arg[1] = "scale" /\ call.raised = "none" ->
           IF call.arg[2].pytype = "list" THEN call.arg[2].v[i] ELSE call.arg[2].v[1]
      [] OTHER -> None

\* C12: a bar element's reference width, height and centroid are those of the bar
\* when the series was built, no call changes them, and a set_scale(s), whatever
\* came before it, leaves the bar s * ref_width wide, s * ref_height high and
\* centred on the centroid.
C12_ReferenceGeometryFixed ==
    [][(series.status = "ok" /\ series.cls = "BarSeries") =>
          \A i \in 1..Len(series.elements) :
             LET e == series.elements[i]
                 b == artist'.bars[i]
                 sc == ScaleGiven(last', i, Len(series.elements))
             IN  /\ RefGeometry(series'.elements[i]) = RefGeometry(e)
                 /\ RefGeometry(e) = RefGeometry(BarElement_init(artist0.bars[i], e.horizontal))
                 /\ (calls' = calls + 1 /\ ~IsNone(sc)) =>
                        /\ b.w = RMul(sc, e.ref_w)
                        /\ b.h = RMul(sc, e.ref_h)
                        /\ RAdd(b.x, RMul(Half, b.w)) = e.cx
                        /\ RAdd(b.y, RMul(Half, b.h)) = e.cy
                        /\ series'.elements[i].scale = sc]_vars

\* A bar scaled by 3/2 with its whole series and then by 1/2 on its own.
C12_Witness ==
    /\ series.status = "ok" /\ series.cls = "BarSeries"
    /\ calls = 2
    /\ last.op = "element.set" /\ last.arg = <<"scale", 1, Half>>
    /\ series.elements[2].scale = Q(3, 2)
    /\ artist.bars[1].w = RMul(Half, artist0.bars[1].w)
    /\ artist.bars[1].h = RMul(Half, artist0.bars[1].h)

SeriesClassOf(kind) ==
    CASE kind = "bar" -> "BarSeries"
      [] kind = "scatter" -> "ScatterSeries"
      [] kind = "line" -> "Line2DSeries"
      [] OTHER -> "none"

\* C13: create_element_series(artist, horizontal) returns what the constructor of
\* the class of the artist's kind returns (BarSeries for a bar container,
\* ScatterSeries for a path collection, Line2DSeries for a line), whatever the
\* artist holds and whatever horizontal is; for any other artist it raises
\* NotImplementedError and no series exists.
C13_FactoryDispatch ==
    last.op = "create_element_series" =>
        LET h == last.arg[1]
        IN  /\ artist.kind = "bar" => series = BarSeries_init(artist, h)
            /\ artist.kind = "scatter" => series = ScatterSeries_init(artist, h)
            /\ artist.kind = "line" => series = Line2DSeries_init(artist, h)
            /\ artist.kind \in Supported => series.status # "NotImplementedError"
            /\ series.status = "ok" => series.cls = SeriesClassOf(artist.kind)
            /\ artist.kind \notin Supported =>
                   /\ series.status = "NotImplementedError"
                   /\ last.raised = "NotImplementedError"
                   /\ series.cls = "none" /\ series.elements = <<>>
            /\ artist = artist0

C13_Witness ==
    /\ last.op = "create_element_series"
    /\ artist.kind = "other"
    /\ series.status = "NotImplementedError"
    /\ last.raised = "NotImplementedError"

\* C14: set_data(v) on a point or a line vertex stores v in the buffered
\* coordinate of the moving axis (x if horizontal, y otherwise) and changes
\* nothing else: not the other coordinate, not another element, not the artist.
C14_PointSetDataBuffered ==
    [][(/\ calls' = calls + 1
        /\ last'.op = "element.set"
        /\ last'.arg[1] = "data"
        /\ series.cls \in {"ScatterSeries", "Line2DSeries"}) =>
           LET i == last'.arg[2]
               v == last'.arg[3]
               e == series.elements[i]
               moving == IF e.horizontal THEN 1 ELSE 2
           IN  /\ series'.elements[i].data[moving] = v
               /\ series'.elements[i].data[3 - moving] = e.data[3 - moving]
               /\ [series'.elements[i] EXCEPT !.data = e.data] = e
               /\ \A j \in 1..Len(series.elements) :
                      j # i => series'.elements[j] = series.elements[j]
               /\ artist' = artist]_vars

\* C17: update() of a line series raises nothing; it warns exactly when the
\* elements hold more than one alpha or more than one scale; the line's alpha is
\* one of the elements' alphas, and its marker size and line width are the sizes
\* captured at construction times one of the elements' scales (the same one for
\* both); its coordinates are the elements'.
C17_PolylineFlush ==
    (last.op = "update" /\ series.cls = "Line2DSeries") =>
        LET els == series.elements
        IN  /\ last.raised = "none"
            /\ last.warned <=>
                  (Cardinality(AlphaSet(els)) > 1 \/ Cardinality(ScaleSet(els)) > 1)
            /\ artist.alpha \in {els[i].alpha : i \in 1..Len(els)}
            /\ \E i \in 1..Len(els) :
                  /\ artist.ms = RMul(artist0.ms, els[i].scale)
                  /\ artist.lw = RMul(artist0.lw, els[i].scale)
            /\ \A i \in 1..Len(els) : <<artist.xdata[i], artist.ydata[i]>> = els[i].data

\* Two vertices of different scale flushed: a warning, and the scale that is not
\* the original 1 applied.
C17_Witness ==
    /\ last.op = "update" /\ series.cls = "Line2DSeries"
    /\ last.warned
    /\ Cardinality(ScaleSet(series.elements)) = 2
    /\ Cardinality(AlphaSet(series.elements)) = 1
    /\ artist.ms # artist0.ms
    /\ artist.lw # artist0.lw

\* C18: every iteration over the Stagger(base, interval) yields base,
\* base + interval, base + 2 * interval, ...: it starts again at base each time.
C18_StaggerRestarts ==
    last.op = "zip" =>
        last.arg[2] = [k \in 1..last.arg[1] |->
                          DemoStagger[1] + (k - 1) * DemoStagger[2]]

====
